---------------------------- MODULE Spec2Model ----------------------------
(***************************************************************************)
(* Model of the rpi-gpu-hub75-matrix Python binding layer:                 *)
(*   matrix_wrapper.c    the C wrapper (session, frame buffer, pthread)    *)
(*   matrix_bindings.cpp the MatrixController facade (std::thread, API)    *)
(*                                                                         *)
(* Three kinds of process take steps:                                      *)
(*   the caller thread (the host application calling the public API; it    *)
(*     holds the interpreter lock for the whole of each call, so calls     *)
(*     never overlap one another),                                         *)
(*   the facade's std::thread (the lambda of MatrixController::start),     *)
(*   the wrapper's pthread (render_thread_func).                           *)
(*                                                                         *)
(* The external renderer (default_scene, bcm_mapper, calculate_fps,        *)
(* render_forever) is not part of the repository; of render_forever the    *)
(* model keeps only that it loops on the scene and may or may not return,  *)
(* and of default_scene that it returns a scene, with or without an image  *)
(* buffer, or NULL.  Neither external loop stores into the two buffers.    *)
(*                                                                         *)
(* The constructor and the destructor are steps of the caller thread; the  *)
(* allocations of matrix_wrapper_create and the frees of its failure paths *)
(* and of matrix_wrapper_destroy are kept in heap.                         *)
(***************************************************************************)
EXTENDS Integers, Sequences, FiniteSets, TLC

(***************************************************************************)
(* Bounds of the model.                                                    *)
(***************************************************************************)
\* the constructor's width argument ranges over 1..MaxWidth
MaxWidth == 2
\* the constructor's height argument ranges over 1..MaxHeight
MaxHeight == 2
\* public API calls made by the caller in one behaviour of SpecLife,
\* SpecSession and SpecFrame
MaxCalls == 3
\* public API calls made by the caller in one behaviour of Spec
MaxLiveCalls == 2
\* public API calls made by the caller in one behaviour of SpecPix
MaxPixCalls == 1

(***************************************************************************)
(* Program constants.                                                      *)
(***************************************************************************)
\* bytes per pixel of the frame buffer: malloc(width * height * 3)
Channels == 3
\* number of values of a uint8_t
ByteRange == 256

VARIABLES
    wrapper,        \* matrix_wrapper_t: width, height, running, render_thread
    pixel_buffer,   \* wrapper->pixel_buffer, the FrameBuffer
    scene,          \* wrapper->scene: width, height, stride
    image,          \* wrapper->scene->image, the HardwareImageBuffer
    running,        \* MatrixController::running (std::atomic<bool>)
    render_thread,  \* MatrixController::render_thread is joinable
    pc,             \* where the caller thread is
    call,           \* the public call in progress or last returned, and its outcome
    loop_i,         \* set_pixels: pixels already copied (y * width + x)
    lambda_pc,      \* where the facade's std::thread is
    copy_i,         \* matrix_wrapper_update: bytes already copied by memcpy
    pthread_pc,     \* where the wrapper's pthread is
    forever_phase,  \* render_forever: parity of the iterations done
    started,        \* history: a start() returned normally and no stop() was called since
    calls_left,     \* public calls the caller may still make
    heap,           \* the allocations that are live (malloc'ed and not yet freed)
    written         \* history: the phases of the render loop's current iteration
                    \* in which the caller stored into a buffer

vars == <<wrapper, pixel_buffer, scene, image, running, render_thread, pc, call,
          loop_i, lambda_pc, copy_i, pthread_pc, forever_phase, started, calls_left,
          heap, written>>

callerVars == <<pc, call, loop_i, started, calls_left>>
lambdaVars == <<lambda_pc, copy_i>>
pthreadVars == <<pthread_pc, forever_phase>>
bufferVars == <<pixel_buffer, image>>
flagVars == <<wrapper, running, render_thread>>

(***************************************************************************)
(* Values.                                                                 *)
(***************************************************************************)
Byte == 0 .. (ByteRange - 1)

\* conversion of an int to uint8_t on assignment: reduction modulo 2^8
ToU8(v) == v % ByteRange

\* wrapper->width * wrapper->height * 3
FrameLen == wrapper.width * wrapper.height * Channels

\* scene->width * scene->height * scene->stride
ImageLen == scene.width * scene.height * scene.stride

\* index of the red byte of pixel (x, y) in a row-major buffer of width w
PixelIndex(w, x, y) == (y * w + x) * Channels

\* the RGB triple a reader finds at (x, y) of the frame buffer
ReadPixel(buf, w, x, y) ==
    <<buf[PixelIndex(w, x, y)], buf[PixelIndex(w, x, y) + 1], buf[PixelIndex(w, x, y) + 2]>>


\* memset(buf, v, n): the first n bytes of buf become v
Memset(buf, v, n) == [i \in DOMAIN buf |-> IF i < n THEN v ELSE buf[i]]

\* what malloc returns: n bytes of indeterminate content
GarbageBytes == {0, 165}
Uninitialised(n) == {[i \in 0 .. (n - 1) |-> g] : g \in GarbageBytes}

\* scene->stride as the external initializer may set it (bytes per image pixel)
Strides == {3, 4}

(***************************************************************************)
(* Construction.  Init is the state after a successful                     *)
(* MatrixController(width, height, ...): matrix_wrapper_create has         *)
(* allocated the frame buffer, default_scene has returned the scene, the   *)
(* image buffer exists (here allocated by the wrapper; SpecSession, which  *)
(* runs the constructor itself, covers both origins), no thread runs.      *)
(***************************************************************************)
\* the 13 strings of args[] that matrix_wrapper_create obtains by malloc(32)
ArgStrings ==
    {"args[2]", "args[4]", "args[6]", "args[8]", "args[12]", "args[14]", "args[16]",
     "args[18]", "args[20]", "args[22]", "args[24]", "args[26]", "args[30]"}

\* the allocations a successful matrix_wrapper_create leaves live.  image_set
\* says that default_scene returned the scene with its image already set; the
\* image is then the external renderer's and is not counted here.
Allocated(image_set) ==
    {"wrapper", "pixel_buffer", "scene"} \cup (IF image_set THEN {} ELSE {"image"})

matrix_wrapper_create(w, h, s, budget) ==
    /\ wrapper = [width |-> w, height |-> h, running |-> FALSE, render_thread |-> 0]
    /\ pixel_buffer \in Uninitialised(w * h * Channels)
    /\ scene = [width |-> w, height |-> h, stride |-> s]
    /\ image \in Uninitialised(w * h * s)
    /\ running = FALSE
    /\ render_thread = FALSE
    /\ pc = "idle"
    /\ call = [op |-> "construct", err |-> "none"]
    /\ loop_i = 0
    /\ lambda_pc = "none"
    /\ copy_i = 0
    /\ pthread_pc = "none"
    /\ forever_phase = 0
    /\ started = FALSE
    /\ calls_left = budget
    /\ heap = Allocated(FALSE)
    /\ written = {}

Init ==
    \E w \in 1 .. MaxWidth, h \in 1 .. MaxHeight, s \in Strides :
        matrix_wrapper_create(w, h, s, MaxCalls)

InitLive ==
    \E w \in 1 .. MaxWidth, h \in 1 .. MaxHeight, s \in Strides :
        matrix_wrapper_create(w, h, s, MaxLiveCalls)

InitPix ==
    \E w \in 1 .. MaxWidth, h \in 1 .. MaxHeight, s \in Strides :
        matrix_wrapper_create(w, h, s, MaxPixCalls)

(***************************************************************************)
(* Frame buffer and pixel API.                                             *)
(***************************************************************************)
\* the phases of one iteration of the render loop in which a store by the
\* caller can fall: while memcpy copies, and between the return of memcpy and
\* the call of bcm_mapper
CopyPhases == {"memcpy", "bcm_mapper"}

\* written, after a store into a buffer by the caller thread
Stored == IF lambda_pc \in CopyPhases THEN written \cup {lambda_pc} ELSE written

\* the bounds test of matrix_wrapper_set_pixel
InBounds(x, y) == x >= 0 /\ x < wrapper.width /\ y >= 0 /\ y < wrapper.height

\* matrix_wrapper_set_pixel with the green and blue stores exchanged
matrix_wrapper_set_pixel_swapped(buf, x, y, r, g, b) ==
    IF InBounds(x, y)
    THEN LET index == (y * wrapper.width + x) * 3
         IN  [buf EXCEPT ![index] = ToU8(r), ![index + 1] = ToU8(b), ![index + 2] = ToU8(g)]
    ELSE buf

\* matrix_wrapper_set_pixel with an off-by-one bounds test (x <= width)
matrix_wrapper_set_pixel_off_by_one(buf, x, y, r, g, b) ==
    IF x >= 0 /\ x <= wrapper.width /\ y >= 0 /\ y < wrapper.height
    THEN LET index == (y * wrapper.width + x) * 3
         IN  [i \in DOMAIN buf |->
                 IF i = index THEN ToU8(r)
                 ELSE IF i = index + 1 THEN ToU8(g)
                 ELSE IF i = index + 2 THEN ToU8(b)
                 ELSE buf[i]]
    ELSE buf

\* matrix_wrapper_set_pixel: the frame buffer after the call
matrix_wrapper_set_pixel(buf, x, y, r, g, b) ==
    IF InBounds(x, y)
    THEN LET index == (y * wrapper.width + x) * 3
         IN  [buf EXCEPT ![index] = ToU8(r), ![index + 1] = ToU8(g), ![index + 2] = ToU8(b)]
    ELSE buf

\* MatrixController::set_pixel(x, y, r, g, b)
set_pixel(x, y, r, g, b) ==
    /\ pc = "idle"
    /\ calls_left > 0
    /\ calls_left' = calls_left - 1
    /\ pixel_buffer' = matrix_wrapper_set_pixel(pixel_buffer, x, y, r, g, b)
    /\ call' = [op |-> "set_pixel", x |-> x, y |-> y, r |-> r, g |-> g, b |-> b,
                err |-> "none"]
    /\ written' = IF InBounds(x, y) THEN Stored ELSE written
    /\ UNCHANGED <<image, pc, loop_i, started>>
    /\ UNCHANGED <<flagVars, scene, lambdaVars, pthreadVars>>
    /\ UNCHANGED heap

\* matrix_wrapper_clear with the length of the memset missing its factor 3
matrix_wrapper_clear_short(buf) ==
    Memset(buf, 0, wrapper.width * wrapper.height)

\* matrix_wrapper_clear: the frame buffer and the image buffer after the call
matrix_wrapper_clear_pixel_buffer(buf) ==
    Memset(buf, 0, wrapper.width * wrapper.height * 3)

matrix_wrapper_clear_image(img) ==
    Memset(img, 0, wrapper.width * wrapper.height * 3)

\* MatrixController::clear as bound for the host: "clear" is bound to the
\* zero-argument member function, so a call that passes a colour is rejected
\* by the binding (TypeError) before any code of the controller runs.
\* colour is "default" (no argument) or the RGB triple the caller passes.
clear(colour) ==
    /\ pc = "idle"
    /\ calls_left > 0
    /\ calls_left' = calls_left - 1
    /\ IF colour = "default"
       THEN /\ pixel_buffer' = matrix_wrapper_clear_pixel_buffer(pixel_buffer)
            /\ image' = matrix_wrapper_clear_image(image)
            /\ call' = [op |-> "clear", colour |-> colour, err |-> "none"]
            /\ written' = Stored
       ELSE /\ UNCHANGED <<pixel_buffer, image, written>>
            /\ call' = [op |-> "clear", colour |-> colour, err |-> "TypeError"]
    /\ UNCHANGED <<pc, loop_i, started>>
    /\ UNCHANGED <<flagVars, scene, lambdaVars, pthreadVars>>
    /\ UNCHANGED heap

\* MatrixController::get_width, get_height (matrix_wrapper_get_width, _height)
get_width == wrapper.width
get_height == wrapper.height

\* a numpy array of uint8 handed to set_pixels: its shape and its dense,
\* row-major data (buf.ptr)
ArrayLen(shape) ==
    IF Len(shape) = 2 THEN shape[1] * shape[2] ELSE shape[1] * shape[2] * shape[3]

\* SourcePixel with the source index missing its factor 3
SourcePixel_unscaled(data, w, x, y) ==
    LET src_index == y * w + x
    IN  <<data[src_index], data[src_index + 1], data[src_index + 2]>>

\* the three bytes set_pixels reads for pixel (x, y) of an array of width w
SourcePixel(data, w, x, y) ==
    LET src_index == (y * w + x) * 3
    IN  <<data[src_index], data[src_index + 1], data[src_index + 2]>>

\* set_pixels rejecting an array only when both of its dimensions differ
set_pixels_both_differ(pixels) ==
    /\ pc = "idle"
    /\ calls_left > 0
    /\ calls_left' = calls_left - 1
    /\ IF Len(pixels.shape) # 3 \/ pixels.shape[3] # 3
       THEN /\ call' = [op |-> "set_pixels", pixels |-> pixels,
                        err |-> "DimensionMismatchError",
                        what |-> "Expected 3D array with shape (height, width, 3)"]
            /\ UNCHANGED pc
       ELSE IF pixels.shape[2] # get_width /\ pixels.shape[1] # get_height
       THEN /\ call' = [op |-> "set_pixels", pixels |-> pixels,
                        err |-> "DimensionMismatchError",
                        what |-> "Pixel array dimensions don't match scene dimensions"]
            /\ UNCHANGED pc
       ELSE /\ call' = [op |-> "set_pixels", pixels |-> pixels, err |-> "pending"]
            /\ pc' = "set_pixels_loop"
    /\ loop_i' = 0
    /\ UNCHANGED <<pixel_buffer, image, started>>
    /\ UNCHANGED <<flagVars, scene, lambdaVars, pthreadVars>>
    /\ UNCHANGED <<heap, written>>

\* MatrixController::set_pixels, up to the start of the copy loop
set_pixels(pixels) ==
    /\ pc = "idle"
    /\ calls_left > 0
    /\ calls_left' = calls_left - 1
    /\ IF Len(pixels.shape) # 3 \/ pixels.shape[3] # 3
       THEN /\ call' = [op |-> "set_pixels", pixels |-> pixels,
                        err |-> "DimensionMismatchError",
                        what |-> "Expected 3D array with shape (height, width, 3)"]
            /\ UNCHANGED pc
       ELSE IF pixels.shape[2] # get_width \/ pixels.shape[1] # get_height
       THEN /\ call' = [op |-> "set_pixels", pixels |-> pixels,
                        err |-> "DimensionMismatchError",
                        what |-> "Pixel array dimensions don't match scene dimensions"]
            /\ UNCHANGED pc
       ELSE /\ call' = [op |-> "set_pixels", pixels |-> pixels, err |-> "pending"]
            /\ pc' = "set_pixels_loop"
    /\ loop_i' = 0
    /\ UNCHANGED <<pixel_buffer, image, started>>
    /\ UNCHANGED <<flagVars, scene, lambdaVars, pthreadVars>>
    /\ UNCHANGED <<heap, written>>

\* one iteration of the copy loop of set_pixels: set_pixel(x, y, ptr[...])
set_pixels_loop ==
    /\ pc = "set_pixels_loop"
    /\ LET height == call.pixels.shape[1]
           width == call.pixels.shape[2]
           y == loop_i \div width
           x == loop_i % width
           p == SourcePixel(call.pixels.data, width, x, y)
       IN  /\ pixel_buffer' = matrix_wrapper_set_pixel(pixel_buffer, x, y, p[1], p[2], p[3])
           /\ IF loop_i + 1 < height * width
              THEN /\ loop_i' = loop_i + 1
                   /\ UNCHANGED <<pc, call>>
              ELSE /\ loop_i' = 0
                   /\ pc' = "idle"
                   /\ call' = [call EXCEPT !.err = "none"]
    /\ written' = Stored
    /\ UNCHANGED <<image, started, calls_left>>
    /\ UNCHANGED <<flagVars, scene, lambdaVars, pthreadVars>>
    /\ UNCHANGED heap

(***************************************************************************)
(* Inputs of the pixel API.                                                *)
(***************************************************************************)
\* coordinates: every in-range one and the nearest out-of-range ones
XCoords == -1 .. MaxWidth
YCoords == -1 .. MaxHeight

\* r, g, b arguments (ints): inside and outside 0..255
PixInts == {<<0, 0, 0>>, <<255, 128, 1>>, <<256, -1, 300>>}

\* colours a caller may want to clear to
ClearColours == {"default", <<0, 0, 0>>, <<255, 0, 0>>}

\* array contents: data[i] = (seed + i) mod 256
DataSeeds == {7, 250}
ArrayData(n, seed) == [i \in 0 .. (n - 1) |-> (seed + i) % ByteRange]

\* shapes: (h, w) and (h, w, c)
ArrayShapes ==
    {<<h, w>> : h \in 1 .. MaxHeight, w \in 1 .. MaxWidth}
        \cup {<<h, w, c>> : h \in 1 .. MaxHeight, w \in 1 .. MaxWidth, c \in {3, 4}}

PixArrays ==
    {[shape |-> sh, data |-> ArrayData(ArrayLen(sh), seed)] :
        sh \in ArrayShapes, seed \in DataSeeds}

\* the pixel API alone, on a session that was never started
NextPix ==
    \/ \E x \in XCoords, y \in YCoords, c \in PixInts : set_pixel(x, y, c[1], c[2], c[3])
    \/ \E colour \in ClearColours : clear(colour)
    \/ \E pixels \in PixArrays : set_pixels(pixels)
    \/ set_pixels_loop

SpecPix == InitPix /\ [][NextPix]_vars

(***************************************************************************)
(* Lifecycle: start and stop, on the caller thread.                        *)
(***************************************************************************)
\* matrix_wrapper_start: its return value; created says whether
\* pthread_create succeeds.  wrapper and wrapper->scene are non-null in
\* every state after construction.
matrix_wrapper_start_returns(created) == ~wrapper.running /\ created

\* matrix_wrapper_start without running = false after a failed pthread_create
matrix_wrapper_start_flag_kept(created) ==
    IF wrapper.running
    THEN UNCHANGED <<wrapper, pthread_pc>>
    ELSE IF created
    THEN /\ wrapper' = [wrapper EXCEPT !.running = TRUE, !.render_thread = 1]
         /\ pthread_pc' = "entry"
    ELSE /\ wrapper' = [wrapper EXCEPT !.running = TRUE]
         /\ UNCHANGED pthread_pc

\* matrix_wrapper_start: its effect on the wrapper and on the pthread
matrix_wrapper_start(created) ==
    IF wrapper.running
    THEN UNCHANGED <<wrapper, pthread_pc>>
    ELSE IF created
    THEN /\ wrapper' = [wrapper EXCEPT !.running = TRUE, !.render_thread = 1]
         /\ pthread_pc' = "entry"
    ELSE \* running = true; pthread_create fails; running = false
         /\ wrapper' = [wrapper EXCEPT !.running = FALSE]
         /\ UNCHANGED pthread_pc

\* start without its first line, if (running) return
start_unguarded(created) ==
    /\ pc = "idle"
    /\ calls_left > 0
    /\ calls_left' = calls_left - 1
    /\ matrix_wrapper_start(created)
    /\ IF matrix_wrapper_start_returns(created)
       THEN /\ call' = [op |-> "start", was_running |-> running, err |-> "pending"]
            /\ pc' = "start_thread"
       ELSE /\ call' = [op |-> "start", was_running |-> running,
                        err |-> "StartError",
                        what |-> "Failed to start matrix wrapper"]
            /\ UNCHANGED pc
    /\ UNCHANGED started
    /\ UNCHANGED <<running, render_thread, loop_i, forever_phase>>
    /\ UNCHANGED <<bufferVars, scene, lambdaVars>>
    /\ UNCHANGED <<heap, written>>

\* MatrixController::start, up to the return of matrix_wrapper_start
start(created) ==
    /\ pc = "idle"
    /\ calls_left > 0
    /\ calls_left' = calls_left - 1
    /\ IF running
       THEN /\ call' = [op |-> "start", was_running |-> running, err |-> "none"]
            /\ started' = TRUE
            /\ UNCHANGED <<wrapper, pthread_pc, pc>>
       ELSE /\ matrix_wrapper_start(created)
            /\ IF matrix_wrapper_start_returns(created)
               THEN /\ call' = [op |-> "start", was_running |-> running, err |-> "pending"]
                    /\ pc' = "start_thread"
               ELSE /\ call' = [op |-> "start", was_running |-> running,
                                err |-> "StartError",
                                what |-> "Failed to start matrix wrapper"]
                    /\ UNCHANGED pc
            /\ UNCHANGED started
    /\ UNCHANGED <<running, render_thread, loop_i, forever_phase>>
    /\ UNCHANGED <<bufferVars, scene, lambdaVars>>
    /\ UNCHANGED <<heap, written>>

\* start_thread spawning the thread without running = true
start_thread_flag_unset ==
    /\ pc = "start_thread"
    /\ UNCHANGED running
    /\ render_thread' = TRUE
    /\ lambda_pc' = "loop"
    /\ pc' = "idle"
    /\ call' = [call EXCEPT !.err = "none"]
    /\ started' = TRUE
    /\ UNCHANGED <<wrapper, copy_i, loop_i, calls_left>>
    /\ UNCHANGED <<bufferVars, scene, pthreadVars>>
    /\ UNCHANGED <<heap, written>>

\* MatrixController::start: running = true; render_thread = std::thread(...)
start_thread ==
    /\ pc = "start_thread"
    /\ running' = TRUE
    /\ render_thread' = TRUE
    /\ lambda_pc' = "loop"
    /\ pc' = "idle"
    /\ call' = [call EXCEPT !.err = "none"]
    /\ started' = TRUE
    /\ UNCHANGED <<wrapper, copy_i, loop_i, calls_left>>
    /\ UNCHANGED <<bufferVars, scene, pthreadVars>>
    /\ UNCHANGED <<heap, written>>

\* stop without its first line, if (!running) return
stop_unguarded ==
    /\ pc = "idle"
    /\ calls_left > 0
    /\ calls_left' = calls_left - 1
    /\ started' = FALSE
    /\ running' = FALSE
    /\ call' = [op |-> "stop", was_running |-> running, err |-> "pending"]
    /\ pc' = "stop_join"
    /\ UNCHANGED <<wrapper, render_thread, loop_i>>
    /\ UNCHANGED <<bufferVars, scene, lambdaVars, pthreadVars>>
    /\ UNCHANGED <<heap, written>>

\* MatrixController::stop, up to the join
stop ==
    /\ pc = "idle"
    /\ calls_left > 0
    /\ calls_left' = calls_left - 1
    /\ started' = FALSE
    /\ IF ~running
       THEN /\ call' = [op |-> "stop", was_running |-> running, err |-> "none"]
            /\ UNCHANGED <<running, pc>>
       ELSE /\ running' = FALSE
            /\ call' = [op |-> "stop", was_running |-> running, err |-> "pending"]
            /\ pc' = "stop_join"
    /\ UNCHANGED <<wrapper, render_thread, loop_i>>
    /\ UNCHANGED <<bufferVars, scene, lambdaVars, pthreadVars>>
    /\ UNCHANGED <<heap, written>>

\* MatrixController::stop: if (render_thread.joinable()) render_thread.join();
\* join returns once the lambda has returned
stop_join ==
    /\ pc = "stop_join"
    /\ IF render_thread
       THEN /\ lambda_pc = "done"
            /\ lambda_pc' = "none"
            /\ render_thread' = FALSE
       ELSE UNCHANGED <<lambda_pc, render_thread>>
    /\ pc' = "matrix_wrapper_stop"
    /\ UNCHANGED <<wrapper, running, copy_i, call, loop_i, started, calls_left>>
    /\ UNCHANGED <<bufferVars, scene, pthreadVars>>
    /\ UNCHANGED <<heap, written>>

\* stop() returns: to the host, which called it, or into ~MatrixController,
\* which goes on to matrix_wrapper_destroy
stop_returns ==
    IF call.op = "destructor"
    THEN /\ pc' = "matrix_wrapper_destroy"
         /\ UNCHANGED call
    ELSE /\ pc' = "idle"
         /\ call' = [call EXCEPT !.err = "none"]

\* matrix_wrapper_stop, up to pthread_join
matrix_wrapper_stop ==
    /\ pc = "matrix_wrapper_stop"
    /\ wrapper' = [wrapper EXCEPT !.running = FALSE]
    /\ IF wrapper.render_thread # 0
       THEN /\ pc' = "pthread_join"
            /\ UNCHANGED call
       ELSE stop_returns
    /\ UNCHANGED <<running, render_thread, loop_i, started, calls_left>>
    /\ UNCHANGED <<bufferVars, scene, lambdaVars, pthreadVars>>
    /\ UNCHANGED <<heap, written>>

\* matrix_wrapper_stop: pthread_join(wrapper->render_thread, NULL) returns once
\* render_thread_func has returned; then render_thread = 0 and stop() returns
pthread_join ==
    /\ pc = "pthread_join"
    /\ pthread_pc = "done"
    /\ pthread_pc' = "none"
    /\ wrapper' = [wrapper EXCEPT !.render_thread = 0]
    /\ stop_returns
    /\ UNCHANGED <<running, render_thread, loop_i, started, calls_left, forever_phase>>
    /\ UNCHANGED <<bufferVars, scene, lambdaVars>>
    /\ UNCHANGED <<heap, written>>

\* matrix_wrapper_is_running
matrix_wrapper_is_running == wrapper.running

\* MatrixController::is_running
is_running == running /\ matrix_wrapper_is_running

(***************************************************************************)
(* The facade's std::thread: the lambda of MatrixController::start.        *)
(***************************************************************************)
\* while (running)
lambda_loop ==
    /\ lambda_pc = "loop"
    /\ lambda_pc' = IF running THEN "matrix_wrapper_update" ELSE "done"
    /\ UNCHANGED <<copy_i, flagVars, bufferVars, scene, callerVars, pthreadVars>>
    /\ UNCHANGED <<heap, written>>

\* matrix_wrapper_update with the test of wrapper->running inverted
matrix_wrapper_update_guard_inverted ==
    /\ lambda_pc = "matrix_wrapper_update"
    /\ lambda_pc' = IF wrapper.running THEN "sleep_for" ELSE "memcpy"
    /\ copy_i' = 0
    /\ written' = {}
    /\ UNCHANGED <<flagVars, bufferVars, scene, callerVars, pthreadVars>>
    /\ UNCHANGED heap

\* matrix_wrapper_update: the guard, and the start of memcpy when it passes.
\* wrapper, scene, pixel_buffer and scene->image are non-null after construction.
matrix_wrapper_update ==
    /\ lambda_pc = "matrix_wrapper_update"
    /\ lambda_pc' = IF ~wrapper.running THEN "sleep_for" ELSE "memcpy"
    /\ copy_i' = 0
    /\ written' = {}
    /\ UNCHANGED <<flagVars, bufferVars, scene, callerVars, pthreadVars>>
    /\ UNCHANGED heap

\* memcpy with a length that misses its factor 3
memcpy_short ==
    /\ lambda_pc = "memcpy"
    /\ image' = [image EXCEPT ![copy_i] = pixel_buffer[copy_i]]
    /\ IF copy_i + 1 < wrapper.width * wrapper.height
       THEN /\ copy_i' = copy_i + 1
            /\ UNCHANGED lambda_pc
       ELSE /\ copy_i' = 0
            /\ lambda_pc' = "bcm_mapper"
    /\ UNCHANGED <<pixel_buffer, flagVars, scene, callerVars, pthreadVars>>
    /\ UNCHANGED <<heap, written>>

\* memcpy reading each byte one place further on in the frame buffer
memcpy_shifted ==
    /\ lambda_pc = "memcpy"
    /\ image' = [image EXCEPT
                    ![copy_i] = pixel_buffer[(copy_i + 1) % (wrapper.width * wrapper.height * 3)]]
    /\ IF copy_i + 1 < wrapper.width * wrapper.height * 3
       THEN /\ copy_i' = copy_i + 1
            /\ UNCHANGED lambda_pc
       ELSE /\ copy_i' = 0
            /\ lambda_pc' = "bcm_mapper"
    /\ UNCHANGED <<pixel_buffer, flagVars, scene, callerVars, pthreadVars>>
    /\ UNCHANGED <<heap, written>>

\* memcpy with its first two arguments exchanged
memcpy_swapped ==
    /\ lambda_pc = "memcpy"
    /\ pixel_buffer' = [pixel_buffer EXCEPT ![copy_i] = image[copy_i]]
    /\ IF copy_i + 1 < wrapper.width * wrapper.height * 3
       THEN /\ copy_i' = copy_i + 1
            /\ UNCHANGED lambda_pc
       ELSE /\ copy_i' = 0
            /\ lambda_pc' = "bcm_mapper"
    /\ UNCHANGED <<image, flagVars, scene, callerVars, pthreadVars>>
    /\ UNCHANGED <<heap, written>>

\* memcpy(scene->image, pixel_buffer, width * height * 3), one byte a step
memcpy ==
    /\ lambda_pc = "memcpy"
    /\ image' = [image EXCEPT ![copy_i] = pixel_buffer[copy_i]]
    /\ IF copy_i + 1 < wrapper.width * wrapper.height * 3
       THEN /\ copy_i' = copy_i + 1
            /\ UNCHANGED lambda_pc
       ELSE /\ copy_i' = 0
            /\ lambda_pc' = "bcm_mapper"
    /\ UNCHANGED <<pixel_buffer, flagVars, scene, callerVars, pthreadVars>>
    /\ UNCHANGED <<heap, written>>

\* scene->bcm_mapper(scene, NULL); calculate_fps(scene->fps, false)
bcm_mapper ==
    /\ lambda_pc = "bcm_mapper"
    /\ lambda_pc' = "sleep_for"
    /\ written' = {}
    /\ UNCHANGED <<copy_i, flagVars, bufferVars, scene, callerVars, pthreadVars>>
    /\ UNCHANGED heap

\* std::this_thread::sleep_for(16 ms), then back to the loop test
sleep_for ==
    /\ lambda_pc = "sleep_for"
    /\ lambda_pc' = "loop"
    /\ UNCHANGED <<copy_i, flagVars, bufferVars, scene, callerVars, pthreadVars>>
    /\ UNCHANGED <<heap, written>>

(***************************************************************************)
(* The wrapper's pthread: render_thread_func.                              *)
(***************************************************************************)
\* the null tests pass (wrapper and scene exist); usleep(50000); the call of
\* render_forever(wrapper->scene)
render_thread_func ==
    /\ pthread_pc = "entry"
    /\ pthread_pc' = "render_forever"
    /\ UNCHANGED <<forever_phase, flagVars, bufferVars, scene, callerVars, lambdaVars>>
    /\ UNCHANGED <<heap, written>>

\* one iteration of the external renderer's blocking loop on the scene.  The
\* loop is given the scene only: it never reads wrapper->running or the
\* facade's running.
render_forever ==
    /\ pthread_pc = "render_forever"
    /\ forever_phase' = 1 - forever_phase
    /\ UNCHANGED <<pthread_pc, flagVars, bufferVars, scene, callerVars, lambdaVars>>
    /\ UNCHANGED <<heap, written>>

\* the external loop ends of its own accord; render_thread_func returns NULL
render_forever_returns ==
    /\ pthread_pc = "render_forever"
    /\ pthread_pc' = "done"
    /\ UNCHANGED <<forever_phase, flagVars, bufferVars, scene, callerVars, lambdaVars>>
    /\ UNCHANGED <<heap, written>>

(***************************************************************************)
(* Specifications.                                                         *)
(***************************************************************************)
\* steps of the caller thread that continue a start() or a stop() in progress
CallerContinues ==
    \/ start_thread
    \/ stop_join
    \/ matrix_wrapper_stop
    \/ pthread_join

\* steps of the facade's std::thread
LambdaStep ==
    \/ lambda_loop
    \/ matrix_wrapper_update
    \/ memcpy
    \/ bcm_mapper
    \/ sleep_for

\* steps of the wrapper's pthread
PthreadStep ==
    \/ render_thread_func
    \/ render_forever
    \/ render_forever_returns

\* start and stop with both threads; no pixel is written
NextLife ==
    \/ \E created \in BOOLEAN : start(created)
    \/ stop
    \/ CallerContinues
    \/ LambdaStep
    \/ PthreadStep

SpecLife == Init /\ [][NextLife]_vars

\* the scheduler runs every thread that can take a step; which step the
\* external loop takes (another iteration, or its return) is its own affair
Fairness ==
    /\ WF_vars(CallerContinues)
    /\ WF_vars(LambdaStep)
    /\ WF_vars(PthreadStep)

FairSpecLife == SpecLife /\ Fairness

\* inputs of the pixel API while the threads run
LiveXCoords == 0 .. MaxWidth
LiveInts == {<<255, 128, 1>>}
LiveArrays ==
    {[shape |-> <<h, w, 3>>, data |-> ArrayData(h * w * 3, seed)] :
        h \in 1 .. MaxHeight, w \in 1 .. MaxWidth, seed \in DataSeeds}

\* the whole program: lifecycle, pixel API and both threads
Next ==
    \/ \E created \in BOOLEAN : start(created)
    \/ stop
    \/ CallerContinues
    \/ \E x \in LiveXCoords, c \in LiveInts : set_pixel(x, 0, c[1], c[2], c[3])
    \/ clear("default")
    \/ \E pixels \in LiveArrays : set_pixels(pixels)
    \/ set_pixels_loop
    \/ LambdaStep
    \/ PthreadStep

Spec == InitLive /\ [][Next]_vars

\* the scheduler runs every thread that can take a step, the caller's
\* set_pixels loop included
FairSpec == Spec /\ Fairness /\ WF_vars(set_pixels_loop)

\* the caller and the facade's std::thread on a session that, once started,
\* is not stopped: every pixel operation against the render loop.  (The
\* wrapper's pthread, which runs only the external loop, takes no step here.)
NextFrame ==
    \/ \E created \in BOOLEAN : start(created)
    \/ start_thread
    \/ \E x \in LiveXCoords, c \in LiveInts : set_pixel(x, 0, c[1], c[2], c[3])
    \/ clear("default")
    \/ \E pixels \in LiveArrays : set_pixels(pixels)
    \/ set_pixels_loop
    \/ LambdaStep

SpecFrame == Init /\ [][NextFrame]_vars

(***************************************************************************)
(* The constructor and the destructor of MatrixController.                 *)
(***************************************************************************)
\* the members before the constructor has run: wrapper is nullptr, there is
\* no scene and no buffer (the fields are placeholders that nothing reads)
NoWrapper == [width |-> 0, height |-> 0, running |-> FALSE, render_thread |-> 0]
NoScene == [width |-> 0, height |-> 0, stride |-> 0]
NoBuffer == [i \in {} |-> 0]

\* the state before MatrixController(...) is called
InitSession ==
    /\ wrapper = NoWrapper
    /\ pixel_buffer = NoBuffer
    /\ scene = NoScene
    /\ image = NoBuffer
    /\ running = FALSE
    /\ render_thread = FALSE
    /\ pc = "unconstructed"
    /\ call = [op |-> "none", err |-> "none"]
    /\ loop_i = 0
    /\ lambda_pc = "none"
    /\ copy_i = 0
    /\ pthread_pc = "none"
    /\ forever_phase = 0
    /\ started = FALSE
    /\ calls_left = MaxCalls
    /\ heap = {}
    /\ written = {}

\* the step of matrix_wrapper_create that fails, if any: malloc of the
\* wrapper, malloc of the frame buffer, default_scene returning NULL, malloc
\* of the image buffer.  (The 13 malloc(32) of the argument strings are not
\* tested by the code; the model follows the runs in which they succeed.)
Failures == {"none", "wrapper", "pixel_buffer", "default_scene", "image"}

\* matrix_wrapper_create: what it leaves allocated when it returns, as the
\* mallocs made up to the failure less the frees of the failing path
matrix_wrapper_create_leaves(failure, image_set) ==
    CASE failure = "wrapper" -> {}
      [] failure = "pixel_buffer" -> {"wrapper"} \ {"wrapper"}
      [] failure = "default_scene" ->
             ({"wrapper", "pixel_buffer"} \cup ArgStrings) \ {"pixel_buffer", "wrapper"}
      [] failure = "image" ->
             ({"wrapper", "pixel_buffer", "scene"} \cup ArgStrings)
                 \ {"pixel_buffer", "scene", "wrapper"}
      [] OTHER ->
             ({"wrapper", "pixel_buffer", "scene"} \cup ArgStrings
                 \cup (IF image_set THEN {} ELSE {"image"})) \ ArgStrings

\* MatrixController::MatrixController(width, height, ...): the call of
\* matrix_wrapper_create and the throw when it returns NULL.  s is the
\* stride default_scene gives the scene, image_set says that it also set
\* scene->image (the malloc of the image buffer is then skipped).
MatrixController(w, h, s, image_set, failure) ==
    /\ pc = "unconstructed"
    /\ failure = "image" => ~image_set
    /\ heap' = heap \cup matrix_wrapper_create_leaves(failure, image_set)
    /\ IF failure = "none"
       THEN /\ wrapper' = [width |-> w, height |-> h, running |-> FALSE,
                           render_thread |-> 0]
            /\ pixel_buffer' \in Uninitialised(w * h * Channels)
            /\ scene' = [width |-> w, height |-> h, stride |-> s]
            /\ image' \in Uninitialised(w * h * s)
            /\ pc' = "idle"
            /\ call' = [op |-> "construct", err |-> "none"]
       ELSE /\ UNCHANGED <<wrapper, pixel_buffer, scene, image>>
            /\ pc' = "construct_failed"
            /\ call' = [op |-> "construct", failure |-> failure, err |-> "InitError",
                        what |-> "Failed to initialize matrix wrapper"]
    /\ UNCHANGED <<running, render_thread, loop_i, started, calls_left, written>>
    /\ UNCHANGED <<lambdaVars, pthreadVars>>

\* ~MatrixController without its call of stop()
destructor_without_stop ==
    /\ pc = "idle"
    /\ started' = FALSE
    /\ pc' = "matrix_wrapper_destroy"
    /\ call' = [op |-> "destructor", was_running |-> running, err |-> "pending"]
    /\ UNCHANGED <<wrapper, running, render_thread, loop_i, calls_left, heap, written>>
    /\ UNCHANGED <<bufferVars, scene, lambdaVars, pthreadVars>>

\* MatrixController::~MatrixController, up to the join inside stop(): the
\* host drops the object between two calls; stop() returns at once when
\* running is false
destructor ==
    /\ pc = "idle"
    /\ started' = FALSE
    /\ IF ~running
       THEN /\ pc' = "matrix_wrapper_destroy"
            /\ UNCHANGED running
       ELSE /\ running' = FALSE
            /\ pc' = "stop_join"
    /\ call' = [op |-> "destructor", was_running |-> running, err |-> "pending"]
    /\ UNCHANGED <<wrapper, render_thread, loop_i, calls_left, heap, written>>
    /\ UNCHANGED <<bufferVars, scene, lambdaVars, pthreadVars>>

\* matrix_wrapper_destroy(wrapper): free(scene), free(pixel_buffer),
\* free(wrapper); scene->image is not freed
matrix_wrapper_destroy ==
    /\ pc = "matrix_wrapper_destroy"
    /\ heap' = heap \ {"scene", "pixel_buffer", "wrapper"}
    /\ pc' = "destroyed"
    /\ call' = [call EXCEPT !.err = "none"]
    /\ UNCHANGED <<flagVars, bufferVars, scene, lambdaVars, pthreadVars>>
    /\ UNCHANGED <<loop_i, started, calls_left, written>>

\* the life of one controller: constructor, start and stop with both
\* threads, destructor
NextSession ==
    \/ \E w \in 1 .. MaxWidth, h \in 1 .. MaxHeight, s \in Strides,
          image_set \in BOOLEAN, failure \in Failures :
            MatrixController(w, h, s, image_set, failure)
    \/ NextLife
    \/ destructor
    \/ matrix_wrapper_destroy

SpecSession == InitSession /\ [][NextSession]_vars

(***************************************************************************)
(* Properties.                                                             *)
(***************************************************************************)
\* a thread that was spawned and has not yet returned from its function
Alive(thread_pc) == thread_pc \notin {"none", "done"}

\* background threads alive on behalf of start(): the facade's std::thread
\* and the wrapper's pthread
ThreadsAlive ==
    (IF Alive(lambda_pc) THEN 1 ELSE 0) + (IF Alive(pthread_pc) THEN 1 ELSE 0)

\* this step is the caller making the public call op
Calls(op) == calls_left' = calls_left - 1 /\ call'.op = op

C2_AtMostOneThread == running => ThreadsAlive <= 1

\* C3 as claimed: a stop() on a running session eventually returns, with
\* every background thread exited and is_running() false.
C3_StopCompletes ==
    (call.op = "stop" /\ call.err = "pending")
        ~> (pc = "idle" /\ call.op = "stop" /\ ThreadsAlive = 0 /\ ~is_running)

\* C4: a stop() on a session that is not running (never started, start
\* failed, or already stopped) returns at once without fault, joins nothing
\* and changes neither the run flags, the thread handles nor the buffers.
C4_StopWhenNotRunningIsNoOp ==
    [][(~started /\ pc = "idle" /\ Calls("stop")) =>
          /\ call'.err = "none"
          /\ pc' = "idle"
          /\ UNCHANGED <<wrapper, running, render_thread, lambda_pc, pthread_pc>>
          /\ UNCHANGED <<pixel_buffer, image>>]_vars

\* C4 witness: stop() has returned, as the caller's second call, on a session
\* that was not running (after a failed start() or after an earlier stop())
C4_Witness ==
    /\ call.op = "stop"
    /\ ~call.was_running
    /\ call.err = "none"
    /\ pc = "idle"
    /\ calls_left = MaxCalls - 2

HoldsPixels(pixels, n) ==
    \A i \in 0 .. (n - 1) : \A k \in 0 .. 2 :
        pixel_buffer[i * 3 + k] = pixels.data[i * 3 + k]

\* C6 as claimed: after set_pixel(x, y, r, g, b) with (x, y) in range, the
\* frame buffer read at (y * width + x) * 3 returns exactly (r, g, b), for
\* every int r, g, b.
C6_SetPixelReadBack ==
    (call.op = "set_pixel" /\ call.x \in 0 .. (wrapper.width - 1)
                           /\ call.y \in 0 .. (wrapper.height - 1)) =>
        ReadPixel(pixel_buffer, wrapper.width, call.x, call.y)
            = <<call.r, call.g, call.b>>

\* C6 as amended: the read returns (r mod 256, g mod 256, b mod 256), the
\* values as stored in bytes; that is exactly (r, g, b) when each of r, g, b
\* is in 0..255.
C6_SetPixelReadBackMod256 ==
    (call.op = "set_pixel" /\ call.x \in 0 .. (wrapper.width - 1)
                           /\ call.y \in 0 .. (wrapper.height - 1)) =>
        LET read == ReadPixel(pixel_buffer, wrapper.width, call.x, call.y)
        IN  /\ read = <<call.r % 256, call.g % 256, call.b % 256>>
            /\ ({call.r, call.g, call.b} \subseteq 0 .. 255
                    => read = <<call.r, call.g, call.b>>)

\* C6 witness: an in-range set_pixel has stored values from outside 0..255
C6_Witness ==
    /\ call.op = "set_pixel"
    /\ call.x = wrapper.width - 1
    /\ call.y = wrapper.height - 1
    /\ wrapper.height > 1
    /\ call.r > 255
    /\ call.g < 0
    /\ ReadPixel(pixel_buffer, wrapper.width, call.x, call.y) = <<0, 255, 44>>

\* C7: set_pixel with (x, y) out of range (x < 0, x >= width, y < 0 or
\* y >= height) reports no error and leaves every byte of the frame buffer
\* unchanged.
C7_SetPixelOutOfRangeIsNoOp ==
    [][(/\ Calls("set_pixel")
        /\ \/ call'.x < 0
           \/ call'.x >= wrapper.width
           \/ call'.y < 0
           \/ call'.y >= wrapper.height) =>
          /\ pixel_buffer' = pixel_buffer
          /\ call'.err = "none"
          /\ pc' = "idle"]_vars

\* C7 witness: a set_pixel one column past the right edge, in a row that has
\* a successor row, has returned
C7_Witness ==
    /\ call.op = "set_pixel"
    /\ call.x = wrapper.width
    /\ call.y = 0
    /\ wrapper.height > 1
    /\ call.err = "none"
    /\ pc = "idle"

\* every pixel of the frame buffer is the triple c
AllPixels(c) ==
    \A x \in 0 .. (wrapper.width - 1), y \in 0 .. (wrapper.height - 1) :
        ReadPixel(pixel_buffer, wrapper.width, x, y) = c

C9_SetPixelsMismatchFails ==
    [][(/\ Calls("set_pixels")
        /\ \/ call'.pixels.shape[2] # wrapper.width
           \/ call'.pixels.shape[1] # wrapper.height) =>
          /\ call'.err = "DimensionMismatchError"
          /\ pc' = "idle"
          /\ pixel_buffer' = pixel_buffer]_vars

\* C9 witness: an RGB array of the right width and the wrong height was
\* rejected by the dimension test
C9_Witness ==
    /\ call.op = "set_pixels"
    /\ Len(call.pixels.shape) = 3
    /\ call.pixels.shape[3] = 3
    /\ call.pixels.shape[2] = wrapper.width
    /\ call.pixels.shape[1] # wrapper.height
    /\ call.err = "DimensionMismatchError"
    /\ call.what = "Pixel array dimensions don't match scene dimensions"
    /\ pc = "idle"

\* C10: set_pixels with an array of the session's dimensions writes the
\* pixels in row-major order, as set_pixel(x, y, A[y][x]) would: in the loop
\* the pixels before the current one already equal those of A, and when the
\* call returns every pixel of the frame buffer equals the pixel of A.
C10_SetPixelsCopiesArray ==
    /\ pc = "set_pixels_loop" => HoldsPixels(call.pixels, loop_i)
    /\ (call.op = "set_pixels" /\ call.err = "none") =>
           /\ pc = "idle"
           /\ HoldsPixels(call.pixels, wrapper.width * wrapper.height)
           /\ \A x \in 0 .. (wrapper.width - 1), y \in 0 .. (wrapper.height - 1) :
                  ReadPixel(pixel_buffer, wrapper.width, x, y)
                      = ReadPixel(call.pixels.data, call.pixels.shape[2], x, y)

\* C10 witness: set_pixels has returned on a frame of more than one row and
\* more than one column
C10_Witness ==
    /\ call.op = "set_pixels"
    /\ call.err = "none"
    /\ pc = "idle"
    /\ wrapper.width > 1
    /\ wrapper.height > 1
    /\ call.pixels.data[0] = 250

\* this step is taken by the caller thread (every step of the caller moves
\* pc, call or calls_left; no step of a background thread does)
CallerStep == callerVars' # callerVars

\* C11 as claimed: the image buffer is written only by the render thread and
\* the frame buffer only by the caller thread: no step of the caller thread
\* (set_pixel, set_pixels, clear included) changes the image buffer, and no
\* step of a background thread changes the frame buffer.
C11_SingleWriter ==
    [][/\ CallerStep => image' = image
       /\ ~CallerStep => pixel_buffer' = pixel_buffer]_vars

\* C11 as amended: set_pixel and set_pixels never write the image buffer, but
\* clear() does, on the caller thread: it zeroes the first width * height * 3
\* bytes of the image buffer, whether or not the render thread is copying.
\* Every other change of the image buffer is a byte stored by the render
\* thread's memcpy, and no background thread changes the frame buffer.
C11_SingleWriterButClear ==
    [][/\ (CallerStep /\ ~Calls("clear")) => image' = image
       /\ Calls("clear") =>
              image' = IF call'.err = "none"
                       THEN [i \in DOMAIN image |->
                                IF i < wrapper.width * wrapper.height * 3
                                THEN 0 ELSE image[i]]
                       ELSE image
       /\ ~CallerStep =>
              /\ pixel_buffer' = pixel_buffer
              /\ image' # image =>
                     /\ lambda_pc = "memcpy"
                     /\ image' = [image EXCEPT ![copy_i] = pixel_buffer[copy_i]]]_vars

\* C11 witness: on a running session clear() has stored into the buffers
\* while the render thread was in the middle of its copy
C11_Witness ==
    /\ call.op = "clear"
    /\ call.err = "none"
    /\ is_running
    /\ lambda_pc = "memcpy"
    /\ copy_i > 0
    /\ "memcpy" \in written
    /\ \A i \in DOMAIN pixel_buffer : image[i] = 0

\* C12 as claimed: once clear() has returned, the whole image buffer, all
\* scene->width * scene->height * scene->stride bytes of it, is zero.
C12_ClearClearsWholeImage ==
    (call.op = "clear" /\ call.colour = "default") =>
        \A i \in 0 .. (ImageLen - 1) : image[i] = 0

\* C13 as claimed: a construction that fails, at whichever step, reports
\* InitError and has released every allocation made before the failure: the
\* live allocations are those there were before the constructor was called
\* (none).
C13_FailedConstructReleasesAll ==
    (call.op = "construct" /\ call.err # "none") =>
        /\ call.err = "InitError"
        /\ pc = "construct_failed"
        /\ heap = {}

\* C14 as claimed: once the controller is destroyed nothing that the
\* constructor allocated is still live (frame buffer, scene, wrapper, and the
\* image buffer when the wrapper allocated it).
C14_DestroyReleasesAll == pc = "destroyed" => heap = {}

\* both background threads have been joined, or were never spawned
ThreadsJoined ==
    /\ lambda_pc = "none"
    /\ pthread_pc = "none"
    /\ ~render_thread
    /\ wrapper.render_thread = 0

\* C15: the wrapper, the frame buffer and the scene are released only by the
\* destructor, and only after both background threads have been joined, also
\* when the controller destroyed is still running: from the moment the
\* destructor reaches matrix_wrapper_destroy no background thread is alive,
\* and until then the wrapper, the frame buffer and the scene stay allocated.
C15_JoinBeforeRelease ==
    /\ pc \in {"matrix_wrapper_destroy", "destroyed"} => ThreadsJoined
    /\ ThreadsAlive > 0 => {"wrapper", "pixel_buffer", "scene"} \subseteq heap
    /\ (pc \notin {"unconstructed", "construct_failed", "destroyed"}) =>
           {"wrapper", "pixel_buffer", "scene"} \subseteq heap

\* C15 witness: a controller that was running when its destructor began has
\* been destroyed
C15_Witness ==
    /\ pc = "destroyed"
    /\ call.op = "destructor"
    /\ call.was_running
    /\ "wrapper" \notin heap

\* C16 as claimed: the external renderer's blocking loop (render_forever)
\* never executes on the session while the spawned per-tick loop (copy the
\* frame buffer, call bcm_mapper) is active on it.
C16_ModesExclusive == ~(pthread_pc = "render_forever" /\ Alive(lambda_pc))

\* C17: a start() that fails with StartError because pthread_create failed
\* returns with the session idle: both run flags false, is_running() false,
\* no background thread and no thread handle, the buffers as they were; and
\* a start() made next is not refused (matrix_wrapper_start returns true if
\* its pthread_create succeeds).
C17_FailedStartLeavesIdle ==
    [][(Calls("start") /\ call'.err = "StartError") =>
          /\ pc' = "idle"
          /\ ~running'
          /\ ~wrapper'.running
          /\ ~is_running'
          /\ ThreadsAlive' = 0
          /\ ThreadsJoined'
          /\ UNCHANGED <<pixel_buffer, image>>
          /\ matrix_wrapper_start_returns(TRUE)']_vars

\* C17 witness: a start() has failed with StartError and the caller may
\* call again
C17_Witness ==
    /\ call.op = "start"
    /\ call.err = "StartError"
    /\ call.what = "Failed to start matrix wrapper"
    /\ ~call.was_running
    /\ pc = "idle"
    /\ calls_left > 0

\* the image buffer holds the frame buffer in its first n bytes
ImageHoldsFrame(n) == \A i \in 0 .. (n - 1) : image[i] = pixel_buffer[i]

CopyStep == lambda_pc = "memcpy" /\ lambdaVars' # lambdaVars /\ ~CallerStep

\* C19: stores of pixels by the caller and the render thread's copy
\* interleave freely, byte by byte.  Each step of the copy stores into one
\* byte of the image buffer the value the same byte of the frame buffer holds
\* at that moment of the copy, and changes nothing else; the value is
\* whatever was stored there last.  (That a torn frame is reachable is the
\* witness.)
C19_CopyStoresCurrentByte ==
    [][CopyStep =>
          /\ image'[copy_i] = pixel_buffer[copy_i]
          /\ \A i \in DOMAIN image : i # copy_i => image'[i] = image[i]
          /\ pixel_buffer' = pixel_buffer
          /\ copy_i < FrameLen]_vars

\* C19 witness, a torn frame: after set_pixels(A), a set_pixels(B) has run
\* during a copy, and bcm_mapper is about to be called with an image buffer
\* whose first pixel is B's and whose second pixel is A's
C19_Witness ==
    /\ lambda_pc = "bcm_mapper"
    /\ call.op = "set_pixels"
    /\ call.pixels.data[0] = 250
    /\ wrapper.width * wrapper.height > 1
    /\ <<image[0], image[1], image[2]>> = <<250, 251, 252>>
    /\ <<image[3], image[4], image[5]>> = <<10, 11, 12>>

\* the public operations that store pixels
PixelWrites == {"set_pixel", "set_pixels", "clear"}

\* C20: every completed write becomes visible.  When set_pixel, set_pixels or
\* clear has returned on a running session, then, the threads being scheduled
\* fairly, either the image buffer comes to equal the frame buffer (over the
\* length of the frame buffer), or the caller makes a further call (a further
\* write, or the stop() that ends the running).
C20_WriteBecomesVisible ==
    \A k \in 0 .. MaxLiveCalls :
        (/\ is_running
         /\ pc = "idle"
         /\ calls_left = k
         /\ call.op \in PixelWrites
         /\ call.err = "none")
            ~> (ImageHoldsFrame(FrameLen) \/ calls_left < k)

\* C20 witness: after the caller's last call, a set_pixels on a running
\* session, an iteration of the render loop has ended with the image buffer
\* holding the array written
C20_Witness ==
    /\ is_running
    /\ pc = "idle"
    /\ calls_left = 0
    /\ call.op = "set_pixels"
    /\ call.err = "none"
    /\ lambda_pc = "sleep_for"
    /\ wrapper.width * wrapper.height > 1
    /\ \A i \in 0 .. (FrameLen - 1) :
           image[i] = pixel_buffer[i] /\ image[i] = call.pixels.data[i]

=============================================================================
